---- MODULE Spec2Model ----
(***************************************************************************)
(* A model of the `list` and `backup` commands of ark-cli (src/main.rs).   *)
(*                                                                         *)
(* Strings are sequences of byte codes, so that splitting, trimming,       *)
(* lexical comparison and length are computed on characters.  Option<T>    *)
(* is a sequence of length at most one: None is << >>, Some(x) is <<x>>.   *)
(* A u32 is held as its canonical decimal numeral (a string of digits      *)
(* without leading zeros): this keeps the whole 32-bit range.              *)
(***************************************************************************)
EXTENDS Integers, Sequences, FiniteSets

----------------------------------------------------------------------------
(* Option<T> *)

None == << >>

Some(x) == <<x>>

IsSome(o) == Len(o) = 1

Unwrap(o) == o[1]

----------------------------------------------------------------------------
(* Bounds of the model *)

\* longest index snapshot (number of path -> resource pairs)
MaxEntries == 2

\* longest roots configuration
MaxRoots == 2

\* the wall clock runs over 0 .. MaxClock seconds
MaxClock == 1

----------------------------------------------------------------------------
(* Strings *)

Comma == 44

Space == 32

IsWhitespace(c) == c \in {9, 10, 11, 12, 13, Space}

IsDigit(c) == c \in 48..57

\* str::chars().count(): the bytes of a UTF-8 text that start a character,
\* which are the bytes other than the continuation bytes 0x80..0xBF
RECURSIVE CharCount(_)
CharCount(s) ==
    IF s = << >> THEN 0
    ELSE (IF Head(s) \in 128..191 THEN 0 ELSE 1) + CharCount(Tail(s))

RECURSIVE TrimStart(_)
TrimStart(s) ==
    IF s # << >> /\ IsWhitespace(Head(s)) THEN TrimStart(Tail(s)) ELSE s

RECURSIVE TrimEnd(_)
TrimEnd(s) ==
    IF s # << >> /\ IsWhitespace(s[Len(s)])
    THEN TrimEnd(SubSeq(s, 1, Len(s) - 1))
    ELSE s

\* str::trim
Trim(s) == TrimEnd(TrimStart(s))

\* str::split(','): the pieces between the commas; always at least one piece
RECURSIVE SplitComma(_)
SplitComma(s) ==
    IF \E i \in 1..Len(s) : s[i] = Comma
    THEN LET i == CHOOSE j \in 1..Len(s) :
                     s[j] = Comma /\ \A k \in 1..(j - 1) : s[k] # Comma
         IN  <<SubSeq(s, 1, i - 1)>> \o SplitComma(SubSeq(s, i + 1, Len(s)))
    ELSE <<s>>

\* s.split(',').map(|s| s.trim().to_string()).collect()
ParseTags(s) == [i \in 1..Len(SplitComma(s)) |-> Trim(SplitComma(s)[i])]

\* [String]::join(", ")
RECURSIVE JoinTags(_)
JoinTags(tags) ==
    IF tags = << >> THEN << >>
    ELSE IF Len(tags) = 1 THEN tags[1]
    ELSE tags[1] \o <<Comma, Space>> \o JoinTags(Tail(tags))

\* Ord for str: bytewise lexicographic order, -1 / 0 / 1
RECURSIVE StrCmp(_, _)
StrCmp(a, b) ==
    IF a = << >> /\ b = << >> THEN 0
    ELSE IF a = << >> THEN -1
    ELSE IF b = << >> THEN 1
    ELSE IF Head(a) < Head(b) THEN -1
    ELSE IF Head(a) > Head(b) THEN 1
    ELSE StrCmp(Tail(a), Tail(b))

\* Ord for Option<String>: None is less than every Some
OptCmp(a, b) ==
    IF ~IsSome(a) /\ ~IsSome(b) THEN 0
    ELSE IF ~IsSome(a) THEN -1
    ELSE IF ~IsSome(b) THEN 1
    ELSE StrCmp(Unwrap(a), Unwrap(b))

----------------------------------------------------------------------------
(* u32 as a canonical decimal numeral *)

\* "4294967295"
U32Max == <<52, 50, 57, 52, 57, 54, 55, 50, 57, 53>>

Zero == <<48>>

RECURSIVE StripZeros(_)
StripZeros(s) ==
    IF Len(s) > 1 /\ Head(s) = 48 THEN StripZeros(Tail(s)) ELSE s

\* str::parse::<u32>: an optional '+', then one or more digits, in range
ParseU32(s) ==
    LET digits == IF s # << >> /\ Head(s) = 43 THEN Tail(s) ELSE s
        canon  == StripZeros(digits)
    IN  IF digits = << >> \/ \E i \in 1..Len(digits) : ~IsDigit(digits[i])
        THEN None
        ELSE IF Len(canon) > Len(U32Max)
                \/ (Len(canon) = Len(U32Max) /\ StrCmp(canon, U32Max) = 1)
        THEN None
        ELSE Some(canon)

\* .map_or(0, |s| s.parse::<u32>().unwrap_or(0))
ScoreOf(raw) ==
    IF ~IsSome(raw) THEN Zero
    ELSE IF IsSome(ParseU32(Unwrap(raw))) THEN Unwrap(ParseU32(Unwrap(raw)))
    ELSE Zero

----------------------------------------------------------------------------
(* Rendering of the modification time: "%b %e %H:%M %Y" in UTC *)

MonthAbbrev ==
    << <<74, 97, 110>>,  <<70, 101, 98>>,  <<77, 97, 114>>,  <<65, 112, 114>>,
       <<77, 97, 121>>,  <<74, 117, 110>>, <<74, 117, 108>>, <<65, 117, 103>>,
       <<83, 101, 112>>, <<79, 99, 116>>,  <<78, 111, 118>>, <<68, 101, 99>> >>

Digit(n) == 48 + n

\* two digits, zero padded (%H, %M)
Pad0(n) == <<Digit(n \div 10), Digit(n % 10)>>

\* two characters, space padded (%e)
PadSp(n) == <<IF n < 10 THEN Space ELSE Digit(n \div 10), Digit(n % 10)>>

\* four digits (%Y, for the years 1000..9999)
Year4(y) ==
    <<Digit(y \div 1000), Digit((y \div 100) % 10),
      Digit((y \div 10) % 10), Digit(y % 10)>>

\* the civil date (year, month, day) of a day number counted from 1970-01-01
CivilFromDays(days) ==
    LET z   == days + 719468
        era == z \div 146097
        doe == z - era * 146097
        yoe == (doe - doe \div 1460 + doe \div 36524 - doe \div 146096) \div 365
        doy == doe - (365 * yoe + yoe \div 4 - yoe \div 100)
        mp  == (5 * doy + 2) \div 153
        d   == doy - (153 * mp + 2) \div 5 + 1
        m   == IF mp < 10 THEN mp + 3 ELSE mp - 9
        y   == yoe + era * 400 + (IF m <= 2 THEN 1 ELSE 0)
    IN  [year |-> y, month |-> m, day |-> d]

\* DateTime::<Utc>::from(modified).format("%b %e %H:%M %Y").to_string();
\* the seconds of the instant do not appear in the result
FormatModified(secs) ==
    LET date == CivilFromDays(secs \div 86400)
        tod  == secs % 86400
    IN  MonthAbbrev[date.month] \o <<Space>> \o PadSp(date.day) \o <<Space>>
        \o Pad0(tod \div 3600) \o <<58>> \o Pad0((tod % 3600) \div 60)
        \o <<Space>> \o Year4(date.year)

----------------------------------------------------------------------------
(* The world the commands run in *)

\* The resources an index can hold: path, resource id ("<size>-<crc32>"),
\* modification instant (seconds since the epoch), the values the attribute
\* store holds for the resource under "tags" and "scores" (None when absent)
\* and the state of the file at `path` when it is listed.
Resources ==
    { \* "/a", "1-7", 1970-01-01 00:00:00, tags "a,b", score "5", file "hi"
      [path |-> <<47, 97>>, id |-> <<49, 45, 55>>, modified |-> 0,
       tagsRaw |-> Some(<<97, Comma, 98>>), scoresRaw |-> Some(<<53>>),
       file |-> [open |-> TRUE, utf8 |-> TRUE, data |-> <<104, 105>>]],
      \* "/b", "2-9", 1970-01-01 00:00:59, tags " a , ab", score "x",
      \* file deleted after the index was built
      [path |-> <<47, 98>>, id |-> <<50, 45, 57>>, modified |-> 59,
       tagsRaw |-> Some(<<Space, 97, Space, Comma, Space, 97, 98>>),
       scoresRaw |-> Some(<<120>>),
       file |-> [open |-> FALSE, utf8 |-> TRUE, data |-> << >>]],
      \* "/cc", "10-3", 1970-04-01 00:00:00, no tags, no score, file "link"
      [path |-> <<47, 99, 99>>, id |-> <<49, 48, 45, 51>>,
       modified |-> 7776000,
       tagsRaw |-> None, scoresRaw |-> None,
       file |-> [open |-> TRUE, utf8 |-> TRUE,
                 data |-> <<108, 105, 110, 107>>]],
      \* "/d", "4-4", 1970-04-01 00:00:00 (the instant of "/cc"), tags "ab",
      \* score "4294967296", file is not UTF-8 text
      [path |-> <<47, 100>>, id |-> <<52, 45, 52>>, modified |-> 7776000,
       tagsRaw |-> Some(<<97, 98>>),
       scoresRaw |-> Some(<<52, 50, 57, 52, 57, 54, 55, 50, 57, 54>>),
       file |-> [open |-> TRUE, utf8 |-> FALSE, data |-> <<255>>]],
      \* "/\u00e9" (three bytes of UTF-8, two characters), "5-0",
      \* 1970-01-01 00:01:00, tags "", score "012", empty file
      [path |-> <<47, 195, 169>>, id |-> <<53, 45, 48>>, modified |-> 60,
       tagsRaw |-> Some(<< >>), scoresRaw |-> Some(<<48, 49, 50>>),
       file |-> [open |-> TRUE, utf8 |-> TRUE, data |-> << >>]] }

\* sequences of at most n distinct elements of S
DistinctSeqs(S, n) ==
    UNION { { q \in [1..k -> S] : \A i, j \in 1..k : i # j => q[i] # q[j] }
            : k \in 0..n }

\* path2id as it is iterated: any order of any at most MaxEntries resources
Snapshots == DistinctSeqs(Resources, MaxEntries)

EntryOutputs == {"Id", "Path", "Both", "Link"}

\* the values --filter is given in the model: "a", "ab"
FilterValues == { <<97>>, <<97, 98>> }

\* the arguments of `list` (root_dir only feeds provide_root)
ListArgs ==
    [ entry      : {None} \cup {Some(e) : e \in EntryOutputs},
      entry_id   : BOOLEAN,
      entry_path : BOOLEAN,
      modified   : BOOLEAN,
      tags       : BOOLEAN,
      scores     : BOOLEAN,
      sort       : {None, Some("Asc"), Some("Desc")},
      filter     : {None} \cup {Some(f) : f \in FilterValues} ]

----------------------------------------------------------------------------
(* State *)

VARIABLES
    \* --- the filesystem and the clock
    arkDir,          \* whether ~/.ark exists
    \* --- one invocation of `list`
    pc,              \* where the invocation is
    args,            \* its command line
    io,              \* the filesystem operations it has performed, in order
    result,          \* "Running", "Ok" (main returned Ok(())), or how it failed
    entry_output,    \* Option<EntryOutput>, set by the resolution of the mode
    snapshot,        \* path2id in iteration order, once the index is read
    collected,       \* storage_entries as collected from the index
    sorted,          \* storage_entries after the sort
    storage_entries, \* storage_entries
    widths,          \* longest_content .. longest_datetime, per column
    rows,            \* the lines printed, one per entry
    \* --- the backup command
    clock,           \* the wall clock, in seconds since the epoch
    rootsCfg,        \* the roots the roots configuration lists, in order
    hasStorage,      \* the roots that hold a storage area (root/.ark)
    backupDirs,      \* the timestamps t for which ~/.ark-backups/t exists
    manifest,        \* per timestamp, the lines of the file `roots`, or None
    copies,          \* per timestamp, the pairs <<i, root>>: directory i
                     \* holds a copy of root's storage area
    backup,          \* per invocation of `backup`, its local state
    overlapped       \* the pairs of invocations that ran at the same time

listVars ==
    <<pc, args, io, result, entry_output, snapshot, collected, sorted,
      storage_entries, widths, rows>>

backupVars ==
    <<clock, rootsCfg, hasStorage, backupDirs, manifest, copies, backup,
      overlapped>>

vars == <<arkDir, listVars, backupVars>>

----------------------------------------------------------------------------
(* main, before the command is matched *)

\* home_dir(), ark_dir.exists(), create_dir(&ark_dir), app_id::load(ark_dir):
\* how far main gets and what it did to the filesystem, given whether the
\* home directory is known, whether create_dir and the load succeed, and
\* whether ~/.ark exists
PrologueOutcome(home, mk, load, dirExists) ==
    LET made == IF dirExists THEN <<"exists">> ELSE <<"exists", "create_dir">>
    IN  IF ~home
        THEN [status |-> "ErrHome", ops |-> << >>, arkDir |-> dirExists]
        ELSE IF ~dirExists /\ ~mk
        THEN [status |-> "ErrArkDir", ops |-> made, arkDir |-> FALSE]
        ELSE IF ~load
        THEN [status |-> "Exit1", ops |-> made \o <<"app_id::load">>,
              arkDir |-> TRUE]
        ELSE [status |-> "Continue", ops |-> made \o <<"app_id::load">>,
              arkDir |-> TRUE]

----------------------------------------------------------------------------
(* list: the output mode *)

\* ResolveEntryOutput with the explicit mode winning over the two flags
ResolveEntryOutputLenient(entry, entry_id, entry_path) ==
    CASE IsSome(entry)                              -> Some(Unwrap(entry))
      [] ~IsSome(entry) /\ entry_id /\ ~entry_path  -> Some("Id")
      [] ~IsSome(entry) /\ ~entry_id /\ entry_path  -> Some("Path")
      [] ~IsSome(entry) /\ entry_id /\ entry_path   -> Some("Both")
      [] OTHER                                      -> Some("Link")

\* match (entry, entry_id, entry_path): Some(mode), or None for the
\* combinations the match rejects
ResolveEntryOutput(entry, entry_id, entry_path) ==
    CASE IsSome(entry) /\ ~entry_id /\ ~entry_path  -> Some(Unwrap(entry))
      [] ~IsSome(entry) /\ entry_id /\ ~entry_path  -> Some("Id")
      [] ~IsSome(entry) /\ ~entry_id /\ entry_path  -> Some("Path")
      [] ~IsSome(entry) /\ entry_id /\ entry_path   -> Some("Both")
      [] ~IsSome(entry) /\ ~entry_id /\ ~entry_path -> Some("Link")
      [] OTHER                                      -> None

----------------------------------------------------------------------------
(* list: one entry per (path, resource) of the index *)

\* File::open(&path) followed by read_to_string: Some(contents) or None
ReadLink(file) ==
    IF file.open /\ file.utf8 THEN Some(file.data) ELSE None

\* EntryOf keeping an unreadable entry of the Link mode as an empty row
\* a variant of EntryOf: a field that was not asked for holds a zero value
\* (no tags, score 0, the empty text) where EntryOf leaves it absent
EntryOfZeroValued(r, a, mode) ==
    LET entry(path, resource, content) ==
            Some([path |-> path, resource |-> resource, content |-> content,
                  tags |-> Some(IF a.tags /\ IsSome(r.tagsRaw)
                                THEN ParseTags(Unwrap(r.tagsRaw))
                                ELSE << >>),
                  scores |-> Some(IF a.scores THEN ScoreOf(r.scoresRaw)
                                  ELSE Zero),
                  datetime |-> Some(IF a.modified
                                    THEN FormatModified(r.modified)
                                    ELSE << >>)])
    IN  CASE mode = "Both" -> entry(Some(r.path), Some(r.id), None)
          [] mode = "Path" -> entry(Some(r.path), None, None)
          [] mode = "Id"   -> entry(None, Some(r.id), None)
          [] mode = "Link" -> IF IsSome(ReadLink(r.file))
                              THEN entry(None, None, ReadLink(r.file))
                              ELSE None

EntryOfPlaceholder(r, a, mode) ==
    LET entry(path, resource, content) ==
            Some([path |-> path, resource |-> resource, content |-> content,
                  tags |-> IF a.tags
                           THEN Some(IF IsSome(r.tagsRaw)
                                     THEN ParseTags(Unwrap(r.tagsRaw))
                                     ELSE << >>)
                           ELSE None,
                  scores |-> IF a.scores THEN Some(ScoreOf(r.scoresRaw))
                             ELSE None,
                  datetime |-> IF a.modified
                               THEN Some(FormatModified(r.modified))
                               ELSE None])
    IN  CASE mode = "Both" -> entry(Some(r.path), Some(r.id), None)
          [] mode = "Path" -> entry(Some(r.path), None, None)
          [] mode = "Id"   -> entry(None, Some(r.id), None)
          [] mode = "Link" -> entry(None, None, ReadLink(r.file))

\* the closure given to filter_map: Some(StorageEntry), or None when the
\* entry is left out
EntryOf(r, a, mode) ==
    LET tags     == IF a.tags
                    THEN Some(IF IsSome(r.tagsRaw)
                              THEN ParseTags(Unwrap(r.tagsRaw))
                              ELSE << >>)
                    ELSE None
        scores   == IF a.scores THEN Some(ScoreOf(r.scoresRaw)) ELSE None
        datetime == IF a.modified
                    THEN Some(FormatModified(r.modified))
                    ELSE None
        entry(path, resource, content) ==
            Some([path |-> path, resource |-> resource, content |-> content,
                  tags |-> tags, scores |-> scores, datetime |-> datetime])
    IN  CASE mode = "Both" -> entry(Some(r.path), Some(r.id), None)
          [] mode = "Path" -> entry(Some(r.path), None, None)
          [] mode = "Id"   -> entry(None, Some(r.id), None)
          [] mode = "Link" -> IF IsSome(ReadLink(r.file))
                              THEN entry(None, None, ReadLink(r.file))
                              ELSE None

\* .iter().filter_map(..).collect()
RECURSIVE CollectEntries(_, _, _)
CollectEntries(snap, a, mode) ==
    IF snap = << >> THEN << >>
    ELSE (IF IsSome(EntryOf(Head(snap), a, mode))
          THEN <<Unwrap(EntryOf(Head(snap), a, mode))>>
          ELSE << >>) \o CollectEntries(Tail(snap), a, mode)

\* the files the Link mode opens, one per entry of the index
LinkReads(snap, mode) ==
    IF mode = "Link" THEN [i \in 1..Len(snap) |-> "File::open"] ELSE << >>

----------------------------------------------------------------------------
(* list: sort and filter *)

\* CompareEntries with the operands of the descending comparator not swapped
CompareEntriesUnswapped(dir, a, b) == OptCmp(a.datetime, b.datetime)

\* the comparators given to sort_by
CompareEntries(dir, a, b) ==
    IF dir = "Asc" THEN OptCmp(a.datetime, b.datetime)
    ELSE OptCmp(b.datetime, a.datetime)

\* x put into the sorted sequence s behind every element that is not
\* greater than it: the place a stable sort gives it
RECURSIVE InsertStable(_, _, _)
InsertStable(dir, x, s) ==
    IF s = << >> THEN <<x>>
    ELSE IF CompareEntries(dir, Head(s), x) > 0 THEN <<x>> \o s
    ELSE <<Head(s)>> \o InsertStable(dir, x, Tail(s))

\* slice::sort_by, a stable sort
RECURSIVE SortBy(_, _)
SortBy(dir, s) ==
    IF s = << >> THEN << >>
    ELSE InsertStable(dir, s[Len(s)], SortBy(dir, SubSeq(s, 1, Len(s) - 1)))

\* match sort { Some(Asc) .. Some(Desc) .. None }
SortEntries(sort, s) ==
    IF IsSome(sort) THEN SortBy(Unwrap(sort), s) ELSE s

\* Retained with a tag matching when the filter is a prefix of it
RetainedPrefix(e, f) ==
    IF IsSome(e.tags)
    THEN \E i \in 1..Len(Unwrap(e.tags)) :
            /\ Len(Unwrap(e.tags)[i]) >= Len(f)
            /\ SubSeq(Unwrap(e.tags)[i], 1, Len(f)) = f
    ELSE FALSE

\* entry.tags.as_ref().map(|tags| tags.contains(filter)).unwrap_or(false)
Retained(e, f) ==
    IF IsSome(e.tags)
    THEN \E i \in 1..Len(Unwrap(e.tags)) : Unwrap(e.tags)[i] = f
    ELSE FALSE

\* Vec::retain
RECURSIVE Retain(_, _)
Retain(s, f) ==
    IF s = << >> THEN << >>
    ELSE (IF Retained(Head(s), f) THEN <<Head(s)>> ELSE << >>)
         \o Retain(Tail(s), f)

\* if let Some(filter) = filter { storage_entries.retain(..) }
FilterEntries(filter, s) ==
    IF IsSome(filter) THEN Retain(s, Unwrap(filter)) ELSE s

----------------------------------------------------------------------------
(* list: column widths and rows *)

\* "NO_TAGS"
NoTags == <<78, 79, 95, 84, 65, 71, 83>>

\* "NO_SCORE"
NoScore == <<78, 79, 95, 83, 67, 79, 82, 69>>

TagsOut(tags) == IF tags = << >> THEN NoTags ELSE JoinTags(tags)

ScoresOut(score) == IF score = Zero THEN NoScore ELSE score

\* the text of each column of an entry, None where the field is absent
Fields(e) ==
    [content  |-> e.content,
     path     |-> e.path,
     resource |-> e.resource,
     tags     |-> IF IsSome(e.tags)
                  THEN Some(TagsOut(Unwrap(e.tags)))
                  ELSE None,
     scores   |-> IF IsSome(e.scores)
                  THEN Some(ScoresOut(Unwrap(e.scores)))
                  ELSE None,
     datetime |-> e.datetime]

Columns == <<"content", "path", "resource", "tags", "scores", "datetime">>

\* the folds longest_path .. longest_content: the longest text of a column,
\* an absent field counting 0
RECURSIVE Longest(_, _)
Longest(s, col) ==
    IF s = << >> THEN 0
    ELSE LET f    == Fields(Head(s))[col]
             len  == IF IsSome(f) THEN Len(Unwrap(f)) ELSE 0
             rest == Longest(Tail(s), col)
         IN  IF len > rest THEN len ELSE rest

Widths(s) == [col \in {Columns[i] : i \in 1..Len(Columns)} |-> Longest(s, col)]

Spaces(n) == [i \in 1..n |-> Space]

\* format!("{:width$} ", text): left justified, padded with spaces up to
\* width characters, then one space
Padded(text, width) ==
    text
    \o (IF CharCount(text) < width
        THEN Spaces(width - CharCount(text))
        ELSE << >>)
    \o <<Space>>

\* the line printed for an entry
RECURSIVE RowFrom(_, _, _)
RowFrom(e, w, i) ==
    IF i > Len(Columns) THEN << >>
    ELSE (IF IsSome(Fields(e)[Columns[i]])
          THEN Padded(Unwrap(Fields(e)[Columns[i]]), w[Columns[i]])
          ELSE << >>) \o RowFrom(e, w, i + 1)

Rows(s) == [i \in 1..Len(s) |-> RowFrom(s[i], Widths(s), 1)]

----------------------------------------------------------------------------
(* list: the steps of the command *)

InitList ==
    /\ arkDir \in BOOLEAN
    /\ pc = "prologue"
    /\ args \in ListArgs
    /\ io = << >>
    /\ result = "Running"
    /\ entry_output = None
    /\ snapshot = << >>
    /\ collected = << >>
    /\ sorted = << >>
    /\ storage_entries = << >>
    /\ widths = Widths(<< >>)
    /\ rows = << >>
    /\ clock = 0
    /\ rootsCfg = << >>
    /\ hasStorage = {}
    /\ backupDirs = {}
    /\ manifest = << >>
    /\ copies = << >>
    /\ backup = << >>
    /\ overlapped = {}

Fail(why) ==
    /\ pc' = "done"
    /\ result' = why

ListPrologue ==
    /\ pc = "prologue"
    /\ \E home, mk, load \in BOOLEAN :
          LET o == PrologueOutcome(home, mk, load, arkDir)
          IN  /\ arkDir' = o.arkDir
              /\ io' = io \o o.ops
              /\ IF o.status = "Continue"
                 THEN pc' = "provide_root" /\ UNCHANGED result
                 ELSE Fail(o.status)
    /\ UNCHANGED <<args, entry_output, snapshot, collected, sorted,
                   storage_entries, widths, rows, backupVars>>

\* let root = provide_root(root_dir)?;
ProvideRoot ==
    /\ pc = "provide_root"
    /\ io' = io \o <<"provide_root">>
    /\ \E ok \in BOOLEAN :
          IF ok THEN pc' = "entry_output" /\ UNCHANGED result
          ELSE Fail("ErrRoot")
    /\ UNCHANGED <<arkDir, args, entry_output, snapshot, collected, sorted,
                   storage_entries, widths, rows, backupVars>>

\* let entry_output = match (entry, entry_id, entry_path) { .. };
EntryOutput ==
    /\ pc = "entry_output"
    /\ LET m == ResolveEntryOutput(args.entry, args.entry_id, args.entry_path)
       IN  /\ entry_output' = m
           /\ IF IsSome(m) THEN pc' = "index" /\ UNCHANGED result
              ELSE Fail("ErrConfig")
    /\ UNCHANGED <<arkDir, args, io, snapshot, collected, sorted,
                   storage_entries, widths, rows, backupVars>>

\* provide_index(&root)?.read()?.path2id.iter().filter_map(..).collect()
CollectIndex ==
    /\ pc = "index"
    /\ \E provided, locked \in BOOLEAN, snap \in Snapshots :
          IF ~provided
          THEN /\ Fail("ErrIndex")
               /\ io' = io \o <<"provide_index">>
               /\ UNCHANGED <<snapshot, collected, storage_entries>>
          ELSE IF ~locked
          THEN /\ Fail("ErrRead")
               /\ io' = io \o <<"provide_index">>
               /\ UNCHANGED <<snapshot, collected, storage_entries>>
          ELSE /\ pc' = "sort"
               /\ io' = io \o <<"provide_index">>
                        \o LinkReads(snap, Unwrap(entry_output))
               /\ snapshot' = snap
               /\ collected' = CollectEntries(snap, args, Unwrap(entry_output))
               /\ storage_entries' = collected'
               /\ UNCHANGED result
    /\ UNCHANGED <<arkDir, args, entry_output, sorted, widths, rows,
                   backupVars>>

\* match sort { .. storage_entries.sort_by(..) .. }
Sort ==
    /\ pc = "sort"
    /\ pc' = "filter"
    /\ sorted' = SortEntries(args.sort, storage_entries)
    /\ storage_entries' = sorted'
    /\ UNCHANGED <<arkDir, args, io, result, entry_output, snapshot,
                   collected, widths, rows, backupVars>>

\* if let Some(filter) = filter { storage_entries.retain(..) }
Filter ==
    /\ pc = "filter"
    /\ pc' = "render"
    /\ storage_entries' = FilterEntries(args.filter, storage_entries)
    /\ UNCHANGED <<arkDir, args, io, result, entry_output, snapshot,
                   collected, sorted, widths, rows, backupVars>>

\* the widths, the println! of every row, and Ok(())
Render ==
    /\ pc = "render"
    /\ pc' = "done"
    /\ widths' = Widths(storage_entries)
    /\ rows' = Rows(storage_entries)
    /\ result' = "Ok"
    /\ UNCHANGED <<arkDir, args, io, entry_output, snapshot, collected,
                   sorted, storage_entries, backupVars>>

NextList ==
    \/ ListPrologue
    \/ ProvideRoot
    \/ EntryOutput
    \/ CollectIndex
    \/ Sort
    \/ Filter
    \/ Render

SpecList == InitList /\ [][NextList]_vars

----------------------------------------------------------------------------
(* list: properties *)

Reverse(s) == [i \in 1..Len(s) |-> s[Len(s) + 1 - i]]

\* the orders a sequence can be iterated in
IterationOrders(s) ==
    { [i \in 1..Len(s) |-> s[f[i]]] :
        f \in { g \in [1..Len(s) -> 1..Len(s)] :
                  \A i, j \in 1..Len(s) : i # j => g[i] # g[j] } }

\* the elements of s at the indices in M, in the order of s
IsSelection(t, s, M) ==
    /\ Len(t) = Cardinality(M)
    /\ \A i \in M : t[Cardinality({k \in M : k <= i})] = s[i]

\* an explicit --entry together with --entry-id or --entry-path
Conflict == IsSome(args.entry) /\ (args.entry_id \/ args.entry_path)

\* the invocation got as far as resolving the output mode
Resolved ==
    /\ pc \notin {"prologue", "provide_root", "entry_output"}
    /\ result \notin {"ErrHome", "ErrArkDir", "Exit1", "ErrRoot"}

\* the invocation got as far as collecting the entries of the index
Collected ==
    /\ pc \notin {"prologue", "provide_root", "entry_output", "index"}
    /\ result \notin {"ErrHome", "ErrArkDir", "Exit1", "ErrRoot", "ErrConfig",
                      "ErrIndex", "ErrRead"}

\* C1: the output mode is decided by the table over (--entry, --entry-id,
\* --entry-path): an explicit mode alone is used as it is, id alone gives
\* Id, path alone gives Path, both give Both, neither gives Link, and an
\* explicit mode together with a flag ends the command with the
\* configuration error; such a command never prints a row.
C1_ModeResolution ==
    /\ Conflict => rows = << >>
    /\ Resolved =>
         /\ (IsSome(args.entry) /\ ~args.entry_id /\ ~args.entry_path)
              => entry_output = args.entry /\ result # "ErrConfig"
         /\ (~IsSome(args.entry) /\ args.entry_id /\ ~args.entry_path)
              => entry_output = Some("Id") /\ result # "ErrConfig"
         /\ (~IsSome(args.entry) /\ ~args.entry_id /\ args.entry_path)
              => entry_output = Some("Path") /\ result # "ErrConfig"
         /\ (~IsSome(args.entry) /\ args.entry_id /\ args.entry_path)
              => entry_output = Some("Both") /\ result # "ErrConfig"
         /\ (~IsSome(args.entry) /\ ~args.entry_id /\ ~args.entry_path)
              => entry_output = Some("Link") /\ result # "ErrConfig"
         /\ Conflict
              => entry_output = None /\ result = "ErrConfig" /\ pc = "done"
    /\ (Conflict /\ pc = "done") => result # "Ok"

\* an explicit mode with both flags reached the resolution and was rejected
C1_Witness ==
    /\ Resolved
    /\ args.entry = Some("Path") /\ args.entry_id /\ args.entry_path
    /\ result = "ErrConfig"

\* C7: a command line with conflicting output-mode flags fails with the
\* configuration error before any I/O: no filesystem operation is ever
\* performed by such an invocation.
C7_ConfigErrorBeforeIO == Conflict => io = << >>

\* all entries of the snapshot have distinct modification instants
DistinctTimestamps ==
    \A i, j \in 1..Len(snapshot) :
        i # j => snapshot[i].modified # snapshot[j].modified

\* all entries of the snapshot have distinct rendered modification times
DistinctRendered ==
    \A i, j \in 1..Len(snapshot) :
        i # j => FormatModified(snapshot[i].modified)
                   # FormatModified(snapshot[j].modified)

OtherDirection(dir) == IF dir = "Asc" THEN "Desc" ELSE "Asc"

\* the sort of this invocation gave the reverse of what the other direction
\* gives on the same entries, whatever order they are iterated in
ReversedByOtherDirection ==
    \A q \in IterationOrders(collected) :
        sorted = Reverse(SortBy(OtherDirection(Unwrap(args.sort)), q))

\* C8 as stated: with modification time requested and all timestamps of the
\* snapshot distinct, --sort asc and --sort desc give reversed orders.
C8_SortReversalAsStated ==
    (Collected /\ pc # "sort" /\ args.modified /\ IsSome(args.sort)
       /\ DistinctTimestamps)
    => sorted = Reverse(SortBy(OtherDirection(Unwrap(args.sort)), collected))

\* C8 amended: with modification time requested and all rendered
\* modification-time strings of the snapshot distinct, --sort asc and
\* --sort desc give reversed orders.
C8_SortReversal ==
    (Collected /\ pc # "sort" /\ args.modified /\ IsSome(args.sort)
       /\ DistinctRendered)
    => ReversedByOtherDirection

\* two entries with distinct rendered times were sorted, and the sort moved
\* them
C8_Witness ==
    /\ Collected /\ pc # "sort" /\ args.modified /\ args.sort = Some("Asc")
    /\ DistinctRendered
    /\ Len(sorted) >= 2
    /\ sorted # collected

\* C9: after --filter T the entries are exactly the entries before the
\* filter whose tag list is present and holds a tag equal to T, in their
\* previous order; without --tags nothing is retained; an empty result is
\* not an error.
C9_Filter ==
    (Collected /\ pc \notin {"sort", "filter"} /\ IsSome(args.filter))
    => LET T == Unwrap(args.filter)
           M == { i \in 1..Len(sorted) :
                    /\ IsSome(sorted[i].tags)
                    /\ T \in { Unwrap(sorted[i].tags)[k] :
                                 k \in 1..Len(Unwrap(sorted[i].tags)) } }
       IN  /\ IsSelection(storage_entries, sorted, M)
           /\ ~args.tags => storage_entries = << >>
           /\ result \in {"Running", "Ok"}
           /\ pc = "done" => result = "Ok"

\* a filter kept some entries and dropped others
C9_Witness ==
    /\ Collected /\ pc \notin {"sort", "filter"} /\ IsSome(args.filter)
    /\ storage_entries # << >>
    /\ Len(storage_entries) < Len(sorted)

\* C10: in the Link mode the entries are exactly the entries of the index
\* whose file can be opened and read as text, each with the file's content
\* and no other entry in between; in the other modes every entry of the
\* index is kept; the command does not fail because of an unreadable file.
C10_LinkSkipping ==
    Collected
    => /\ result \in {"Running", "Ok"}
       /\ pc = "done" => result = "Ok"
       /\ IF entry_output = Some("Link")
          THEN LET R == { i \in 1..Len(snapshot) :
                            snapshot[i].file.open /\ snapshot[i].file.utf8 }
               IN  /\ Len(collected) = Cardinality(R)
                   /\ \A i \in R :
                        LET e == collected[Cardinality({k \in R : k <= i})]
                        IN  /\ e.content = Some(snapshot[i].file.data)
                            /\ e.path = None
                            /\ e.resource = None
          ELSE /\ Len(collected) = Len(snapshot)
               /\ \A i \in 1..Len(snapshot) :
                    /\ collected[i].content = None
                    /\ collected[i].path \in {None, Some(snapshot[i].path)}
                    /\ collected[i].resource \in {None, Some(snapshot[i].id)}
                    /\ collected[i].path # None \/ collected[i].resource # None

\* a Link listing kept a readable entry and left an unreadable one out
C10_Witness ==
    /\ Collected
    /\ entry_output = Some("Link")
    /\ collected # << >>
    /\ Len(collected) < Len(snapshot)
    /\ pc = "done"
    /\ Len(rows) = Len(collected)

\* the invocation printed its rows and returned
Rendered == pc = "done" /\ result = "Ok"

\* the columns the invocation asked for: those of the resolved mode and
\* those of the flags --tags, --scores and --modified
Requested(col) ==
    CASE col = "content"  -> entry_output = Some("Link")
      [] col = "path"     -> entry_output \in {Some("Path"), Some("Both")}
      [] col = "resource" -> entry_output \in {Some("Id"), Some("Both")}
      [] col = "tags"     -> args.tags
      [] col = "scores"   -> args.scores
      [] col = "datetime" -> args.modified

\* the requested columns, in the fixed order
RequestedColumns == SelectSeq(Columns, Requested)

\* the text an entry shows in a column
Shown(e, col) == Unwrap(Fields(e)[col])

\* for every requested column the width is the greatest measure of the
\* texts shown in it: no text measures more, and when an entry remains some
\* text measures exactly the width
WidthIsLongest(Measure(_)) ==
    \A k \in 1..Len(RequestedColumns) :
        LET col == RequestedColumns[k]
        IN  /\ \A i \in 1..Len(storage_entries) :
                 Measure(Shown(storage_entries[i], col)) <= widths[col]
            /\ storage_entries # << >>
               => \E i \in 1..Len(storage_entries) :
                     Measure(Shown(storage_entries[i], col)) = widths[col]

\* the line of an entry over the columns cols: each text followed by the
\* spaces that fill it up to the width of its column and by one space
RECURSIVE LineOf(_, _)
LineOf(e, cols) ==
    IF cols = << >> THEN << >>
    ELSE LET text == Shown(e, Head(cols))
         IN  text \o Spaces(widths[Head(cols)] - CharCount(text))
             \o <<Space>> \o LineOf(e, Tail(cols))

\* one line per remaining entry, in their order, made of the requested
\* columns and of no other, in the fixed order
RowsAsRequested ==
    /\ Len(rows) = Len(storage_entries)
    /\ \A i \in 1..Len(rows) :
          rows[i] = LineOf(storage_entries[i], RequestedColumns)

\* the bytes of a text: str::len()
ByteCount(s) == Len(s)

\* C11: when the rows are printed, every requested column's width is the
\* greatest length, counted in characters, of the texts the remaining
\* entries show in it (tags joined by ", " or NO_TAGS, the score or
\* NO_SCORE): no row's text is longer than the width and, when a row is
\* printed, some row's text is exactly as long; every row is made of the
\* requested columns only, in the order content, path, id, tags, score,
\* datetime, each padded to its width.
C11_ColumnWidths ==
    Rendered => WidthIsLongest(CharCount) /\ RowsAsRequested

\* the same with the length counted in bytes, as longest_* count it
C11_WidthsInBytes ==
    Rendered => WidthIsLongest(ByteCount) /\ RowsAsRequested

\* a listing printed two rows of several columns whose texts differ in
\* length, one of them a placeholder
C11_BytesWitness ==
    /\ Rendered
    /\ Len(rows) = 2
    /\ Len(RequestedColumns) >= 3
    /\ args.tags
    /\ \E i, j \in 1..2 :
          /\ Shown(storage_entries[i], "tags") = NoTags
          /\ Len(Shown(storage_entries[j], "tags")) < Len(NoTags)

\* C12: every entry of one invocation has its path exactly in the modes
\* Path and Both, its id exactly in the modes Id and Both, its content
\* exactly in the mode Link, its tags, score and modification time exactly
\* when --tags, --scores and --modified were given, so all entries of the
\* invocation have the same fields; and with --entry-id and --entry-path
\* together every entry of the index is kept, with its path and its id.
C12_FieldPresence ==
    Collected
    => /\ \A s \in {collected, sorted, storage_entries} :
            \A i \in 1..Len(s), k \in 1..Len(Columns) :
                IsSome(s[i][Columns[k]]) <=> Requested(Columns[k])
       /\ args.entry_id /\ args.entry_path
          => /\ Len(collected) = Len(snapshot)
             /\ \A i \in 1..Len(snapshot) :
                   /\ collected[i].path = Some(snapshot[i].path)
                   /\ collected[i].resource = Some(snapshot[i].id)

\* a listing with --entry-id, --entry-path and --tags but without --scores
\* kept both entries of the index, one of them without any tag
C12_Witness ==
    /\ Rendered
    /\ args.entry_id /\ args.entry_path /\ args.tags /\ ~args.scores
    /\ Len(snapshot) = 2
    /\ Len(storage_entries) = 2
    /\ \E i \in 1..2 : storage_entries[i].tags = Some(<< >>)

----------------------------------------------------------------------------
(* backup: the world *)

\* the invocations of `backup` that are followed
Invocations == {1, 2}

\* the root directories a roots configuration names: "/r1", "/r2", ..
AllRoots == [n \in 1..MaxRoots |-> <<47, 114, Digit(n)>>]

\* the roots configurations: the first n roots, in this order (the names
\* are interchangeable; which of them hold a storage area is not)
RootsConfigs == { SubSeq(AllRoots, 1, n) : n \in 0..MaxRoots }

Timestamps == 0..MaxClock

\* the bytes a file has where nothing was written below a later write
Hole == <<0>>

Msg(text, arg) == [text |-> text, arg |-> arg]

IdleBackup ==
    [pc       |-> "idle",
     res      |-> "Running", \* "Ok", "Exit0" (process::exit(0)) or a failure
     ts       |-> None,      \* Some(timestamp) once it is taken
     existed  |-> FALSE,     \* the backup directory existed when ts was taken
     guardSaw |-> FALSE,     \* backup_dir.is_dir() was true
     valid    |-> << >>,
     invalid  |-> << >>,
     i        |-> 0,         \* the index of the loop over `valid`
     pos      |-> 0,         \* lines written through roots_cfg_backup
     out      |-> << >>,     \* what was printed
     madeDir  |-> FALSE,     \* create_dir_all returned Ok
     fresh    |-> FALSE,     \* .. and the directory did not exist before
     wrote    |-> FALSE,     \* the manifest was created or a copy was made
     writeErr |-> FALSE]     \* a writeln! returned Err

InitBackup ==
    /\ arkDir \in BOOLEAN
    /\ pc = "off"
    /\ args = << >>
    /\ io = << >>
    /\ result = "Running"
    /\ entry_output = None
    /\ snapshot = << >>
    /\ collected = << >>
    /\ sorted = << >>
    /\ storage_entries = << >>
    /\ widths = Widths(<< >>)
    /\ rows = << >>
    /\ clock = 0
    /\ rootsCfg \in RootsConfigs
    /\ hasStorage \in SUBSET {rootsCfg[n] : n \in 1..Len(rootsCfg)}
    /\ backupDirs = {}
    /\ manifest = [t \in Timestamps |-> None]
    /\ copies = [t \in Timestamps |-> {}]
    /\ backup = [p \in Invocations |-> IdleBackup]
    /\ overlapped = {}

Running(p) == backup[p].pc \notin {"idle", "done"}

\* the lines of a file after `line` is written at line offset `pos`
WriteAt(lines, pos, line) ==
    IF pos < Len(lines) THEN [lines EXCEPT ![pos + 1] = line]
    ELSE lines \o [n \in 1..(pos - Len(lines)) |-> Hole] \o <<line>>

----------------------------------------------------------------------------
(* backup: the steps of the command *)

\* the wall clock advances
Tick ==
    /\ clock < MaxClock
    /\ clock' = clock + 1
    /\ UNCHANGED <<arkDir, listVars, rootsCfg, hasStorage, backupDirs,
                   manifest, copies, backup, overlapped>>

\* main up to the match on the command
BackupPrologue(p) ==
    /\ backup[p].pc = "idle"
    /\ \E home, mk, load \in BOOLEAN :
          LET o == PrologueOutcome(home, mk, load, arkDir)
          IN  /\ arkDir' = o.arkDir
              /\ backup' = [backup EXCEPT ![p] =
                    IF o.status = "Continue"
                    THEN [@ EXCEPT !.pc = "timestamp"]
                    ELSE [@ EXCEPT !.pc = "done", !.res = o.status]]
    /\ overlapped' = overlapped
                       \cup { {p, q} : q \in {r \in Invocations : Running(r)} }
    /\ UNCHANGED <<listVars, clock, rootsCfg, hasStorage, backupDirs,
                   manifest, copies>>

\* let timestamp = timestamp().as_secs(); let backup_dir = home_dir()..;
\* the home directory is the one the prologue found
Timestamp(p) ==
    /\ backup[p].pc = "timestamp"
    /\ backup' = [backup EXCEPT ![p] =
          [@ EXCEPT !.pc = "guard", !.ts = Some(clock),
                    !.existed = clock \in backupDirs]]
    /\ UNCHANGED <<arkDir, listVars, clock, rootsCfg, hasStorage, backupDirs,
                   manifest, copies, overlapped>>

\* Guard with the exit forgotten: the message is printed and the run goes on
GuardWithoutExit(p) ==
    /\ backup[p].pc = "guard"
    /\ backup' = [backup EXCEPT ![p] =
          IF Unwrap(@.ts) \in backupDirs
          THEN [@ EXCEPT !.pc = "discover", !.guardSaw = TRUE,
                  !.out = @ \o <<Msg("Wait at least 1 second, please!",
                                     << >>)>>]
          ELSE [@ EXCEPT !.pc = "discover"]]
    /\ UNCHANGED <<arkDir, listVars, clock, rootsCfg, hasStorage, backupDirs,
                   manifest, copies, overlapped>>

\* Guard without the check of the directory
GuardIgnored(p) ==
    /\ backup[p].pc = "guard"
    /\ backup' = [backup EXCEPT ![p] = [@ EXCEPT !.pc = "discover"]]
    /\ UNCHANGED <<arkDir, listVars, clock, rootsCfg, hasStorage, backupDirs,
                   manifest, copies, overlapped>>

\* if backup_dir.is_dir() { println!(..); std::process::exit(0) }
Guard(p) ==
    /\ backup[p].pc = "guard"
    /\ backup' = [backup EXCEPT ![p] =
          IF Unwrap(@.ts) \in backupDirs
          THEN [@ EXCEPT !.pc = "done", !.res = "Exit0", !.guardSaw = TRUE,
                  !.out = @ \o <<Msg("Wait at least 1 second, please!",
                                     << >>)>>]
          ELSE [@ EXCEPT !.pc = "discover"]]
    /\ UNCHANGED <<arkDir, listVars, clock, rootsCfg, hasStorage, backupDirs,
                   manifest, copies, overlapped>>

\* discover_roots(roots_cfg)?, the partition by storages_exists, the report
\* of the invalid roots and the exit when no root is valid
Discover(p) ==
    /\ backup[p].pc = "discover"
    /\ \E ok \in BOOLEAN :
          LET valid   == SelectSeq(rootsCfg, LAMBDA r : r \in hasStorage)
              invalid == SelectSeq(rootsCfg, LAMBDA r : r \notin hasStorage)
              listed  ==
                  IF invalid = << >> THEN << >>
                  ELSE <<Msg("These folders don't contain any storages:",
                             << >>)>>
                       \o [n \in 1..Len(invalid) |-> Msg("\t", invalid[n])]
              started == backup[p].out \o <<Msg("Preparing backup:", << >>)>>
          IN  backup' = [backup EXCEPT ![p] =
                IF ~ok
                THEN [@ EXCEPT !.pc = "done", !.res = "ErrRoots",
                               !.out = started]
                ELSE IF valid = << >>
                THEN [@ EXCEPT !.pc = "done", !.res = "Exit0",
                        !.valid = valid, !.invalid = invalid,
                        !.out = started \o listed
                                \o <<Msg("Nothing to backup. Bye!", << >>)>>]
                ELSE [@ EXCEPT !.pc = "create_dir",
                        !.valid = valid, !.invalid = invalid,
                        !.out = started \o listed]]
    /\ UNCHANGED <<arkDir, listVars, clock, rootsCfg, hasStorage, backupDirs,
                   manifest, copies, overlapped>>

\* create_dir_all(&backup_dir).map_err(..)?
CreateDir(p) ==
    /\ backup[p].pc = "create_dir"
    /\ \E ok \in BOOLEAN :
          IF ok
          THEN /\ backupDirs' = backupDirs \cup {Unwrap(backup[p].ts)}
               /\ backup' = [backup EXCEPT ![p] =
                     [@ EXCEPT !.pc = "create_manifest", !.madeDir = TRUE,
                               !.fresh =
                                   Unwrap(backup[p].ts) \notin backupDirs]]
          ELSE /\ UNCHANGED backupDirs
               /\ backup' = [backup EXCEPT ![p] =
                     [@ EXCEPT !.pc = "done", !.res = "ErrBackupDir"]]
    /\ UNCHANGED <<arkDir, listVars, clock, rootsCfg, hasStorage, manifest,
                   copies, overlapped>>

\* File::create(backup_dir.join(ROOTS_CFG_FILENAME)).map_err(..)?: the file
\* is created, or truncated when it exists
CreateManifest(p) ==
    /\ backup[p].pc = "create_manifest"
    /\ \E ok \in BOOLEAN :
          IF ok
          THEN /\ manifest' = [manifest EXCEPT ![Unwrap(backup[p].ts)] =
                                  Some(<< >>)]
               /\ backup' = [backup EXCEPT ![p] =
                     [@ EXCEPT !.pc = "write_roots", !.i = 0, !.pos = 0,
                               !.wrote = TRUE]]
          ELSE /\ UNCHANGED manifest
               /\ backup' = [backup EXCEPT ![p] =
                     [@ EXCEPT !.pc = "done", !.res = "ErrManifest"]]
    /\ UNCHANGED <<arkDir, listVars, clock, rootsCfg, hasStorage, backupDirs,
                   copies, overlapped>>

\* one turn of valid.iter().for_each(|root| { let _ = writeln!(..) }): the
\* result of the write is dropped; after the last turn, "Performing backups:"
WriteRoot(p) ==
    /\ backup[p].pc = "write_roots"
    /\ \E ok \in BOOLEAN :
          LET b    == backup[p]
              t    == Unwrap(b.ts)
              last == b.i + 1 = Len(b.valid)
              next == [b EXCEPT
                         !.i   = IF last THEN 0 ELSE b.i + 1,
                         !.pc  = IF last THEN "copy" ELSE "write_roots",
                         !.out = IF last
                                 THEN @ \o <<Msg("Performing backups:", << >>)>>
                                 ELSE @]
          IN  IF ok
              THEN /\ manifest' = [manifest EXCEPT ![t] =
                        Some(WriteAt(Unwrap(@), b.pos, b.valid[b.i + 1]))]
                   /\ backup' = [backup EXCEPT ![p] =
                        [next EXCEPT !.pos = b.pos + 1]]
              ELSE /\ UNCHANGED manifest
                   /\ backup' = [backup EXCEPT ![p] =
                        [next EXCEPT !.writeErr = TRUE]]
    /\ UNCHANGED <<arkDir, listVars, clock, rootsCfg, hasStorage, backupDirs,
                   copies, overlapped>>

\* one turn of valid.into_iter().enumerate().for_each(..): dir::copy of
\* root/.ark into backup_dir/i, overwriting; after the last turn,
\* "Backup created:" and Ok(())
CopyRoot(p) ==
    /\ backup[p].pc = "copy"
    /\ \E ok \in BOOLEAN :
          LET b      == backup[p]
              t      == Unwrap(b.ts)
              root   == b.valid[b.i + 1]
              last   == b.i + 1 = Len(b.valid)
              shown  == b.out \o <<Msg("\tRoot", root)>>
                        \o (IF ok THEN << >>
                            ELSE <<Msg("\t\tFailed to copy storages!", << >>)>>)
              next   == [b EXCEPT
                           !.i   = b.i + 1,
                           !.pc  = IF last THEN "done" ELSE "copy",
                           !.res = IF last THEN "Ok" ELSE @,
                           !.out = IF last
                                   THEN shown
                                        \o <<Msg("Backup created:", <<t>>)>>
                                   ELSE shown]
          IN  IF ok
              THEN /\ copies' = [copies EXCEPT ![t] =
                        {c \in @ : c[1] # b.i} \cup {<<b.i, root>>}]
                   /\ backup' = [backup EXCEPT ![p] =
                        [next EXCEPT !.wrote = TRUE]]
              ELSE /\ UNCHANGED copies
                   /\ backup' = [backup EXCEPT ![p] = next]
    /\ UNCHANGED <<arkDir, listVars, clock, rootsCfg, hasStorage, backupDirs,
                   manifest, overlapped>>

BackupStep(p) ==
    \/ Timestamp(p)
    \/ Guard(p)
    \/ Discover(p)
    \/ CreateDir(p)
    \/ CreateManifest(p)
    \/ WriteRoot(p)
    \/ CopyRoot(p)

\* invocations one after the other: one starts when no other is running
StartAlone(p) ==
    /\ \A q \in Invocations : ~Running(q)
    /\ BackupPrologue(p)

NextBackup ==
    \/ Tick
    \/ \E p \in Invocations : StartAlone(p)
    \/ \E p \in Invocations : BackupStep(p)

SpecBackup == InitBackup /\ [][NextBackup]_vars

\* invocations started at any time, also while another is running
NextConcurrent ==
    \/ Tick
    \/ \E p \in Invocations : BackupPrologue(p)
    \/ \E p \in Invocations : BackupStep(p)

SpecConcurrent == InitBackup /\ [][NextConcurrent]_vars

----------------------------------------------------------------------------
(* backup: properties *)

Printed(p, text) ==
    \E n \in 1..Len(backup[p].out) : backup[p].out[n].text = text

\* the roots whose copy was announced ("\tRoot .."), in the order printed
Attempts(p) ==
    LET roots == SelectSeq(backup[p].out, LAMBDA m : m.text = "\tRoot")
    IN  [n \in 1..Len(roots) |-> roots[n].arg]

\* the k-th announced copy was reported as failed
CopyFailed(p, k) ==
    \E n \in 1..(Len(backup[p].out) - 1) :
        /\ backup[p].out[n].text = "\tRoot"
        /\ Cardinality({m \in 1..n : backup[p].out[m].text = "\tRoot"}) = k
        /\ backup[p].out[n + 1].text = "\t\tFailed to copy storages!"

Succeeded(p) == backup[p].res \in {"Ok", "Exit0"}

\* C2: an invocation that finds the backup directory of its timestamp
\* already there creates no directory, creates no manifest, copies
\* nothing, discovers no roots and exits with code 0.
C2_IdempotenceGuard ==
    \A p \in Invocations :
        backup[p].existed
        => /\ backup[p].pc \in {"guard", "done"}
           /\ backup[p].pc = "done" => backup[p].res = "Exit0"
           /\ ~backup[p].madeDir
           /\ ~backup[p].wrote
           /\ ~Printed(p, "Preparing backup:")
           /\ backup[p].valid = << >> /\ backup[p].invalid = << >>

\* a second invocation in the second of a finished backup has exited
C2_Witness ==
    \E p, q \in Invocations :
        /\ p # q
        /\ backup[q].res = "Ok" /\ backup[q].wrote
        /\ backup[p].ts = backup[q].ts
        /\ backup[p].existed
        /\ backup[p].pc = "done"
        /\ backup[p].res = "Exit0"

\* C3 as stated: every invocation that writes a manifest or a copy writes
\* into a directory that did not exist before it created it, and no two
\* invocations write into the same backup directory, also when they run
\* concurrently.
C3_NeverSharedAsStated ==
    /\ \A p \in Invocations : backup[p].wrote => backup[p].fresh
    /\ \A p, q \in Invocations :
         (p # q /\ backup[p].wrote /\ backup[q].wrote)
         => backup[p].ts # backup[q].ts

\* C3 amended: an invocation that writes does so into a directory that did
\* not exist before it created it, unless an invocation running at the
\* same time created it; invocations that do not run at the same time never
\* write into the same backup directory.
C3_NeverSharedUnlessConcurrent ==
    /\ \A p \in Invocations :
         backup[p].wrote
         => \/ backup[p].fresh
            \/ \E q \in Invocations :
                 /\ {p, q} \in overlapped /\ p # q
                 /\ backup[q].ts = backup[p].ts
                 /\ backup[q].madeDir
    /\ \A p, q \in Invocations :
         (p # q /\ backup[p].wrote /\ backup[q].wrote
            /\ backup[p].ts = backup[q].ts)
         => {p, q} \in overlapped

\* an invocation wrote a backup, and one that started after it had ended,
\* in the same second, left the directory alone
C3_Witness ==
    \E p, q \in Invocations :
        /\ p # q
        /\ {p, q} \notin overlapped
        /\ backup[p].wrote /\ backup[p].fresh
        /\ backup[q].ts = backup[p].ts
        /\ backup[q].guardSaw
        /\ ~backup[q].wrote

\* the copy loop of a finished run: every valid root was attempted, in
\* order, whichever copies failed; the copies that succeeded are in their
\* numbered directories; the backup path was reported and main returned Ok
CopyLoopCompleted(p) ==
    LET b == backup[p]
        t == Unwrap(b.ts)
    IN  /\ Attempts(p) = b.valid
        /\ \A k \in 1..Len(b.valid) :
             ~CopyFailed(p, k) => <<k - 1, b.valid[k]>> \in copies[t]
        /\ b.out[Len(b.out)] = Msg("Backup created:", <<t>>)
        /\ b.res = "Ok"

\* the manifest of a run lists all its valid roots, one per line, in order
ManifestComplete(p) ==
    manifest[Unwrap(backup[p].ts)] = Some(backup[p].valid)

\* C4: whichever copies fail, every valid root is still attempted in
\* discovery order, the manifest lists all valid roots, the copies that
\* succeeded are in their numbered directories, the backup path is
\* reported and the command succeeds.
C4_PartialFailure ==
    \A p \in Invocations :
        (Printed(p, "Performing backups:") /\ backup[p].pc = "done")
        => CopyLoopCompleted(p) /\ ManifestComplete(p)

\* the same without the manifest: what the copy loop alone guarantees
C4_CopyLoopAlone ==
    \A p \in Invocations :
        (Printed(p, "Performing backups:") /\ backup[p].pc = "done")
        => CopyLoopCompleted(p)

\* C5: the manifest is written before any copy, and a failure to create it
\* or to write one of its lines aborts the run with an error: nothing is
\* copied and no "Backup created" is reported.
C5_ManifestFailureFatal ==
    \A p \in Invocations :
        /\ Printed(p, "\tRoot")
           => /\ manifest[Unwrap(backup[p].ts)] # None
              /\ backup[p].pc \in {"copy", "done"}
        /\ (backup[p].writeErr \/ backup[p].res = "ErrManifest")
           => /\ ~Printed(p, "\tRoot")
              /\ ~Printed(p, "Backup created:")
              /\ backup[p].pc = "done" => ~Succeeded(p)

\* the roots were discovered and partitioned
Discovered(p) ==
    /\ Printed(p, "Preparing backup:")
    /\ backup[p].res # "ErrRoots"

\* C6: the roots are partitioned by the presence of a storage area, in
\* discovery order; every invalid root is reported; the manifest of a
\* completed run holds exactly the valid roots in order and directory k
\* holds the copy of the k-th valid root, so line k and directory k are the
\* same root; without a valid root the run exits with code 0 and creates no
\* directory.
C6_LayoutMatchesDiscovery ==
    \A p \in Invocations :
        Discovered(p)
        => LET b == backup[p]
               t == Unwrap(b.ts)
               V == {n \in 1..Len(rootsCfg) : rootsCfg[n] \in hasStorage}
           IN  /\ IsSelection(b.valid, rootsCfg, V)
               /\ IsSelection(b.invalid, rootsCfg, (1..Len(rootsCfg)) \ V)
               /\ \A n \in 1..Len(b.invalid) :
                    \E m \in 1..Len(b.out) : b.out[m] = Msg("\t", b.invalid[n])
               /\ b.valid = << >>
                    => b.pc = "done" /\ b.res = "Exit0" /\ ~b.madeDir
               /\ (b.pc = "done" /\ b.res = "Ok")
                    => /\ ManifestComplete(p)
                       /\ \A c \in copies[t] :
                            /\ c[2] = b.valid[c[1] + 1]
                            /\ Len(Unwrap(manifest[t])) > c[1]
                            /\ Unwrap(manifest[t])[c[1] + 1] = c[2]

\* the same without the lines of the manifest
C6_PartitionAndDirectories ==
    \A p \in Invocations :
        Discovered(p)
        => LET b == backup[p]
               t == Unwrap(b.ts)
               V == {n \in 1..Len(rootsCfg) : rootsCfg[n] \in hasStorage}
           IN  /\ IsSelection(b.valid, rootsCfg, V)
               /\ IsSelection(b.invalid, rootsCfg, (1..Len(rootsCfg)) \ V)
               /\ \A n \in 1..Len(b.invalid) :
                    \E m \in 1..Len(b.out) : b.out[m] = Msg("\t", b.invalid[n])
               /\ b.valid = << >>
                    => b.pc = "done" /\ b.res = "Exit0" /\ ~b.madeDir
               /\ (b.pc = "done" /\ b.res = "Ok")
                    => \A c \in copies[t] : c[2] = b.valid[c[1] + 1]

====
